---- MODULE Spec2Model ----
(***************************************************************************)
(* A model of the kvs transaction logger (tirasundara/kvs): the file and   *)
(* PostgreSQL backends of postgres_transaction_logger.go and the startup   *)
(* replay and request handlers of main.go.                                 *)
(*                                                                         *)
(* Go strings and file contents are sequences of one-character strings, so *)
(* that fmt.Fprintf, bufio.Scanner and fmt.Sscanf are modelled by what     *)
(* they do to the bytes.  Sequence numbers stay far below 2^64 within the  *)
(* bounds, so the uint64 counter is an unbounded natural here.             *)
(***************************************************************************)
EXTENDS Integers, Sequences, FiniteSets, TLC

(***************************************************************************)
(* Text                                                                    *)
(***************************************************************************)
TAB == "\t"
NL == "\n"
CR == "\r"

DigitChars == <<"0", "1", "2", "3", "4", "5", "6", "7", "8", "9">>

IsDigit(c) == \E i \in 1..10 : DigitChars[i] = c

DigitVal(c) == (CHOOSE i \in 1..10 : DigitChars[i] = c) - 1

\* unicode white space as fmt's isSpace sees it, over the model's alphabet
IsSpace(c) == c \in {" ", TAB, NL, CR}

\* the %d verb of fmt.Fprintf on an unsigned integer
RECURSIVE FormatUint(_)
FormatUint(n) ==
    IF n < 10 THEN <<DigitChars[n + 1]>>
    ELSE FormatUint(n \div 10) \o <<DigitChars[(n % 10) + 1]>>

\* strconv.ParseUint on a token of decimal digits
RECURSIVE ParseDigits(_, _)
ParseDigits(tok, acc) ==
    IF tok = <<>> THEN acc
    ELSE ParseDigits(Tail(tok), acc * 10 + DigitVal(Head(tok)))

ParseUint(tok) == ParseDigits(tok, 0)

RECURSIVE Flatten(_)
Flatten(chunks) ==
    IF chunks = <<>> THEN <<>> ELSE Head(chunks) \o Flatten(Tail(chunks))

(***************************************************************************)
(* Events                                                                  *)
(***************************************************************************)
EventDelete == 1
EventPut == 2

\* Event{}: the zero value
ZeroEvent == [Sequence |-> 0, EventType |-> 0, Key |-> <<>>, Value |-> <<>>]

\* Event{EventType: EventPut, Key: key, Value: value}
PutEvent(key, value) ==
    [Sequence |-> 0, EventType |-> EventPut, Key |-> key, Value |-> value]

\* Event{EventType: EventDelete, Key: key}
DeleteEvent(key) ==
    [Sequence |-> 0, EventType |-> EventDelete, Key |-> key, Value |-> <<>>]

(***************************************************************************)
(* The file format: writing                                                *)
(***************************************************************************)
\* LogLine with the key and value operands in the wrong order
LogLineSwapped(seq, e) ==
    FormatUint(seq) \o <<TAB>> \o FormatUint(e.EventType) \o <<TAB>>
        \o e.Value \o <<TAB>> \o e.Key \o <<NL>>

\* fmt.Fprintf(l.file, "%d\t%d\t%s\t%s\n", seq, e.EventType, e.Key, e.Value)
LogLine(seq, e) ==
    FormatUint(seq) \o <<TAB>> \o FormatUint(e.EventType) \o <<TAB>>
        \o e.Key \o <<TAB>> \o e.Value \o <<NL>>

(***************************************************************************)
(* The file format: reading                                                *)
(***************************************************************************)
\* bufio.ScanLines' dropCR
DropCR(line) ==
    IF line # <<>> /\ line[Len(line)] = CR
    THEN SubSeq(line, 1, Len(line) - 1) ELSE line

\* the tokens bufio.Scanner yields with the default split function: the text
\* up to each newline, and a non-empty unterminated last line
RECURSIVE SplitLines(_, _, _)
SplitLines(bytes, from, i) ==
    IF i > Len(bytes)
    THEN IF from > Len(bytes) THEN <<>>
         ELSE <<DropCR(SubSeq(bytes, from, Len(bytes)))>>
    ELSE IF bytes[i] = NL
         THEN <<DropCR(SubSeq(bytes, from, i - 1))>> \o SplitLines(bytes, i + 1, i + 1)
         ELSE SplitLines(bytes, from, i + 1)

ScanLines(bytes) == SplitLines(bytes, 1, 1)

\* ss.SkipSpace: the first position at or after i that holds no space
RECURSIVE SkipSpace(_, _)
SkipSpace(s, i) ==
    IF i > Len(s) THEN i
    ELSE IF IsSpace(s[i]) THEN SkipSpace(s, i + 1) ELSE i

\* ss.scanNumber: the end (exclusive) of the run of digits starting at i
RECURSIVE DigitsEnd(_, _)
DigitsEnd(s, i) ==
    IF i > Len(s) THEN i
    ELSE IF IsDigit(s[i]) THEN DigitsEnd(s, i + 1) ELSE i

\* ss.token(true, notSpace): the end (exclusive) of the word starting at i
RECURSIVE WordEnd(_, _)
WordEnd(s, i) ==
    IF i > Len(s) THEN i
    ELSE IF IsSpace(s[i]) THEN i ELSE WordEnd(s, i + 1)

MaxByte == 255

\* fmt.Sscanf(line, "%d\t%d\t%s\t%s", &e.Sequence, &e.EventType, &e.Key, &e.Value):
\* the operands filled so far keep their new values, the others their old
\* ones; running out of input before a verb is io.EOF ("EOF"), anything else
\* that stops the scan is another error
Sscanf(line, e) ==
    LET i1 == SkipSpace(line, 1) IN
    IF i1 > Len(line) THEN [e |-> e, err |-> "EOF"]
    ELSE IF ~IsDigit(line[i1]) THEN [e |-> e, err |-> "expected integer"]
    ELSE
    LET j1 == DigitsEnd(line, i1)
        e1 == [e EXCEPT !.Sequence = ParseUint(SubSeq(line, i1, j1 - 1))]
        i2 == SkipSpace(line, j1)
    IN
    IF j1 <= Len(line) /\ ~IsSpace(line[j1])
    THEN [e |-> e1, err |-> "expected space in input to match format"]
    ELSE IF i2 > Len(line) THEN [e |-> e1, err |-> "EOF"]
    ELSE IF ~IsDigit(line[i2]) THEN [e |-> e1, err |-> "expected integer"]
    ELSE
    LET j2 == DigitsEnd(line, i2)
        t2 == ParseUint(SubSeq(line, i2, j2 - 1))
        e2 == [e1 EXCEPT !.EventType = t2]
        i3 == SkipSpace(line, j2)
    IN
    IF t2 > MaxByte THEN [e |-> e1, err |-> "unsigned integer overflow"]
    ELSE IF j2 <= Len(line) /\ ~IsSpace(line[j2])
    THEN [e |-> e2, err |-> "expected space in input to match format"]
    ELSE IF i3 > Len(line) THEN [e |-> e2, err |-> "EOF"]
    ELSE
    LET j3 == WordEnd(line, i3)
        e3 == [e2 EXCEPT !.Key = SubSeq(line, i3, j3 - 1)]
        i4 == SkipSpace(line, j3)
    IN
    IF i4 > Len(line) THEN [e |-> e3, err |-> "EOF"]
    ELSE
    LET j4 == WordEnd(line, i4)
    IN  [e |-> [e3 EXCEPT !.Value = SubSeq(line, i4, j4 - 1)], err |-> "nil"]

\* ScanStep with the sanity check written as > instead of >=
ScanStepAcceptsEqual(line, e, lastSeq) ==
    LET r == Sscanf(line, e) IN
    IF r.err \notin {"nil", "EOF"}
    THEN [kind |-> "error", err |-> "input parse error", e |-> r.e,
          lastSequence |-> lastSeq]
    ELSE IF lastSeq > r.e.Sequence
    THEN [kind |-> "error", err |-> "transaction numbers out of sequence",
          e |-> r.e, lastSequence |-> lastSeq]
    ELSE [kind |-> "event", err |-> "nil", e |-> r.e,
          lastSequence |-> r.e.Sequence]

\* one turn of the scanning loop of FileTransactionLogger.ReadEvents on one
\* line: an error to publish, or the event to send and the new lastSequence
ScanStep(line, e, lastSeq) ==
    LET r == Sscanf(line, e) IN
    IF r.err \notin {"nil", "EOF"}
    THEN [kind |-> "error", err |-> "input parse error", e |-> r.e,
          lastSequence |-> lastSeq]
    ELSE IF lastSeq >= r.e.Sequence
    THEN [kind |-> "error", err |-> "transaction numbers out of sequence",
          e |-> r.e, lastSequence |-> lastSeq]
    ELSE [kind |-> "event", err |-> "nil", e |-> r.e,
          lastSequence |-> r.e.Sequence]


\* the whole of a replay by a freshly constructed logger, as the events it
\* sends and the error it publishes ("nil" when it ends cleanly)
RECURSIVE ReplayFrom(_, _, _, _)
ReplayFrom(lines, e, lastSeq, sent) ==
    IF lines = <<>> THEN [events |-> sent, err |-> "nil"]
    ELSE LET r == ScanStep(Head(lines), e, lastSeq) IN
         IF r.kind = "error" THEN [events |-> sent, err |-> r.err]
         ELSE ReplayFrom(Tail(lines), r.e, r.lastSequence, Append(sent, r.e))

ReplayOf(chunks) == ReplayFrom(ScanLines(Flatten(chunks)), ZeroEvent, 0, <<>>)

(***************************************************************************)
(* The key-value store of main.go                                          *)
(***************************************************************************)
EmptyStore == [k \in {} |-> <<>>]

\* store.m[key] = value
Put(m, key, value) ==
    [k \in DOMAIN m \cup {key} |-> IF k = key THEN value ELSE m[k]]

\* delete(store.m, key)
Delete(m, key) == [k \in DOMAIN m \ {key} |-> m[k]]

\* ApplyEvent with the EventDelete case missing from the switch
ApplyEventNoDelete(m, e) ==
    IF e.EventType = EventPut THEN Put(m, e.Key, e.Value) ELSE m

\* the switch of initializeTransactionLog on a received event
ApplyEvent(m, e) ==
    IF e.EventType = EventDelete THEN Delete(m, e.Key)
    ELSE IF e.EventType = EventPut THEN Put(m, e.Key, e.Value)
    ELSE m

(***************************************************************************)
(* Channels                                                                *)
(***************************************************************************)
\* make(chan Event, 16)
EventsCap == 16
\* make(chan error, 1)
ErrorsCap == 1

\* CanSend of a channel that never blocks its senders
CanSendAlways(buf, cap) == TRUE

\* a send on a buffered channel goes through when the buffer has room
CanSend(buf, cap) == Len(buf) < cap

(***************************************************************************)
(* The PostgreSQL database                                                 *)
(***************************************************************************)
\* the columns of CREATE TABLE transactions in createTable
CreatedColumns == {"sequence", "type", "key", "value"}
\* the columns the INSERT of Run and the SELECT of ReadEvents name
InsertColumns == {"event_type", "key", "value"}
SelectColumns == {"sequence", "event_type", "key", "value"}

NoTable == [cols |-> {}, rows |-> <<>>, exists |-> FALSE]

\* verfifyTableExists: SELECT EXISTS (... WHERE table_name = 'transactions')
TableExists(d) == d.table.exists

\* createTable: the column "type BYTE" needs a type named byte, which
\* PostgreSQL has only where the database defines one
CreateTableOk(d) == d.hasByte

CreateTable(d) ==
    [d EXCEPT !.table = [cols |-> CreatedColumns, rows |-> <<>>, exists |-> TRUE]]

\* whether a statement naming these columns of transactions is accepted
StatementOk(d, cols) == d.table.exists /\ cols \subseteq d.table.cols

\* INSERT INTO transactions (event_type, key, value) ... RETURNING sequence
InsertRow(d, e) ==
    [d EXCEPT !.serial = d.serial + 1,
              !.table.rows = Append(@, [e EXCEPT !.Sequence = d.serial + 1])]


(***************************************************************************)
(* State                                                                   *)
(***************************************************************************)
VARIABLES
    backend,        \* which TransactionLogger the process uses: "file" | "postgres"
    workload,       \* per client: the requests it may make, and the client it follows
    openable,       \* whether os.OpenFile on transaction.log succeeds
    file,           \* transaction.log: the chunks written to it, in order
    db,             \* the PostgreSQL database: [up, hasByte, serial, table]
    faults,         \* backend write failures the environment may still cause
    readFault,      \* whether reading the log (file or rows) may still fail
    life,           \* the number of this process lifetime
    pc,             \* main: "start" | "constructed" | "replay" | "serving" | "fatal"
    lastSequence,   \* FileTransactionLogger.lastSequence
    replay,         \* the goroutine of ReadEvents: [pc, pos, e, err]
    outError,       \* ReadEvents' outError: [buf, closed]
    outEventClosed, \* whether ReadEvents' outEvent is closed
    err,            \* initializeTransactionLog's err ("nil" or the error)
    ok,             \* initializeTransactionLog's ok
    store,          \* store.m
    events,         \* the events channel made by Run
    errors,         \* the errors channel made by Run
    writer,         \* the goroutine of Run: [pc], "none" | "recv" | "blocked" | "exited"
    callers,        \* per client, its request handler: [pc, e]
    admitted,       \* history: the events sent on the events channel, in order
    emitted,        \* history: the events received from outEvent, in order
    hwm,            \* history: lastSequence when Run was called
    base,           \* history: the number of chunks (rows) when the logger was made
    runs            \* history: the number of calls of Run in this lifetime

vars == <<backend, workload, openable, file, db, faults, readFault, life, pc, lastSequence,
          replay, outError, outEventClosed, err, ok, store, events, errors,
          writer, callers, admitted, emitted, hwm, base, runs>>

envVars == <<backend, workload, openable>>
replayVars == <<replay, outError, outEventClosed, err, ok, emitted>>
liveVars == <<events, errors, writer, callers, admitted>>
histVars == <<hwm, base, runs>>

IdleReplay == [pc |-> "none", pos |-> 0, e |-> ZeroEvent, err |-> "nil"]
OpenChannel == [buf |-> <<>>, closed |-> FALSE]
IdleCallers == [c \in DOMAIN workload |-> [pc |-> "idle", e |-> ZeroEvent]]

\* the state of a process that has just started, before initializeTransactionLog
Fresh ==
    /\ pc = "start"
    /\ lastSequence = 0
    /\ replay = IdleReplay
    /\ outError = OpenChannel
    /\ outEventClosed = FALSE
    /\ err = "nil"
    /\ ok = TRUE
    /\ store = EmptyStore
    /\ events = <<>>
    /\ errors = <<>>
    /\ writer = [pc |-> "none"]
    /\ callers = IdleCallers
    /\ admitted = <<>>
    /\ emitted = <<>>
    /\ hwm = 0
    /\ base = 0
    /\ runs = 0

NoDb == [up |-> FALSE, hasByte |-> FALSE, serial |-> 0, table |-> NoTable]

(***************************************************************************)
(* Construction                                                            *)
(***************************************************************************)
\* OpenFile with os.O_TRUNC among the flags
OpenFileTruncating(f) == <<>>

\* os.OpenFile(filename, os.O_RDWR|os.O_APPEND|os.O_CREATE, 0755): the
\* contents of the file after the call
OpenFile(f) == f

\* NewFileTranscationLogger; when os.OpenFile fails it returns the error,
\* initializeTransactionLog returns it and main ends with log.Fatal
NewFileTranscationLogger ==
    /\ pc = "start"
    /\ backend = "file"
    /\ IF openable
       THEN /\ file' = OpenFile(file)
            /\ pc' = "constructed"
       ELSE /\ file' = file
            /\ pc' = "fatal"
    /\ lastSequence' = 0
    /\ base' = Len(file')
    /\ UNCHANGED <<envVars, db, faults, readFault, life, replayVars, store,
                   liveVars, hwm, runs>>

\* the database NewPostgresTransactionLogger leaves, and whether it succeeds
PostgresBootstrap(d) ==
    IF ~d.up THEN [db |-> d, ok |-> FALSE]
    ELSE IF TableExists(d) THEN [db |-> d, ok |-> TRUE]
    ELSE IF CreateTableOk(d) THEN [db |-> CreateTable(d), ok |-> TRUE]
    ELSE [db |-> d, ok |-> FALSE]

NewPostgresTransactionLogger ==
    /\ pc = "start"
    /\ backend = "postgres"
    /\ db' = PostgresBootstrap(db).db
    /\ pc' = IF PostgresBootstrap(db).ok THEN "constructed" ELSE "fatal"
    /\ base' = Len(db'.table.rows)
    /\ UNCHANGED <<envVars, file, faults, readFault, life, lastSequence,
                   replayVars, store, liveVars, hwm, runs>>

(***************************************************************************)
(* Replay: ReadEvents and the loop of initializeTransactionLog             *)
(***************************************************************************)
ReadEvents ==
    /\ pc = "constructed"
    /\ pc' = "replay"
    /\ replay' = [IdleReplay EXCEPT !.pc = "scan"]
    /\ outError' = OpenChannel
    /\ outEventClosed' = FALSE
    /\ err' = "nil"
    /\ ok' = TRUE
    /\ UNCHANGED <<envVars, file, db, faults, readFault, life, lastSequence,
                   store, liveVars, emitted, histVars>>

\* PublishReplayError without the return: the producer goes on scanning
PublishReplayErrorNoReturn(msg, e) ==
    /\ CanSend(outError.buf, ErrorsCap)
    /\ outError' = [outError EXCEPT !.buf = Append(@, msg)]
    /\ replay' = [replay EXCEPT !.pc = "scan", !.e = e, !.err = msg]

\* the producer publishes an error and returns
PublishReplayError(msg, e) ==
    /\ CanSend(outError.buf, ErrorsCap)
    /\ outError' = [outError EXCEPT !.buf = Append(@, msg)]
    /\ replay' = [replay EXCEPT !.pc = "closeError", !.e = e, !.err = msg]

\* FileTransactionLogger.ReadEvents: scanner.Scan() and the body of the loop
FileReadEventsScan ==
    /\ backend = "file"
    /\ replay.pc = "scan"
    /\ LET lines == ScanLines(Flatten(file)) IN
       IF replay.pos < Len(lines)
       THEN LET r == ScanStep(lines[replay.pos + 1], replay.e, lastSequence) IN
            IF r.kind = "error"
            THEN /\ PublishReplayError(r.err, r.e)
                 /\ UNCHANGED lastSequence
            ELSE /\ lastSequence' = r.lastSequence
                 /\ replay' = [replay EXCEPT !.pc = "send", !.pos = @ + 1, !.e = r.e]
                 /\ UNCHANGED outError
       ELSE /\ replay' = [replay EXCEPT !.pc = "closeError"]
            /\ UNCHANGED <<lastSequence, outError>>
    /\ UNCHANGED <<envVars, file, db, faults, readFault, life, pc,
                   outEventClosed, err, ok, store, liveVars, emitted, histVars>>

\* scanner.Scan() stops on a read error and scanner.Err() reports it
FileReadEventsFailure ==
    /\ backend = "file"
    /\ replay.pc = "scan"
    /\ readFault
    /\ readFault' = FALSE
    /\ PublishReplayError("transaction log read failure", replay.e)
    /\ UNCHANGED <<envVars, file, db, faults, life, pc, lastSequence,
                   outEventClosed, err, ok, store, liveVars, emitted, histVars>>

\* PostgresTransactionLogger.ReadEvents: the query, then per turn a row that
\* rows.Next() and rows.Scan deliver, or the clean end of the rows
PostgresReadEventsNext ==
    /\ backend = "postgres"
    /\ replay.pc = "scan"
    /\ IF ~StatementOk(db, SelectColumns)
       THEN PublishReplayError("failed to query trasactions", replay.e)
       ELSE IF replay.pos < Len(db.table.rows)
       THEN /\ replay' = [replay EXCEPT !.pc = "send", !.pos = @ + 1,
                                        !.e = db.table.rows[replay.pos + 1]]
            /\ UNCHANGED outError
       ELSE /\ replay' = [replay EXCEPT !.pc = "closeError"]
            /\ UNCHANGED outError
    /\ UNCHANGED <<envVars, file, db, faults, readFault, life, pc, lastSequence,
                   outEventClosed, err, ok, store, liveVars, emitted, histVars>>

\* rows.Scan fails on the next row (a NULL value, say): the producer
\* publishes the error and returns
PostgresReadEventsScanFailure ==
    /\ backend = "postgres"
    /\ replay.pc = "scan"
    /\ StatementOk(db, SelectColumns)
    /\ replay.pos < Len(db.table.rows)
    /\ readFault
    /\ readFault' = FALSE
    /\ PublishReplayError("error reading row", replay.e)
    /\ UNCHANGED <<envVars, file, db, faults, life, pc, lastSequence,
                   outEventClosed, err, ok, store, liveVars, emitted, histVars>>

\* rows.Next() ends the iteration on an error (the connection is lost, say)
\* and rows.Err() reports it
PostgresReadEventsFailure ==
    /\ backend = "postgres"
    /\ replay.pc = "scan"
    /\ StatementOk(db, SelectColumns)
    /\ readFault
    /\ readFault' = FALSE
    /\ PublishReplayError("transaction log read failure", replay.e)
    /\ UNCHANGED <<envVars, file, db, faults, life, pc, lastSequence,
                   outEventClosed, err, ok, store, liveVars, emitted, histVars>>

\* defer close(outError), which runs first
CloseOutError ==
    /\ replay.pc = "closeError"
    /\ outError' = [outError EXCEPT !.closed = TRUE]
    /\ replay' = [replay EXCEPT !.pc = "closeEvent"]
    /\ UNCHANGED <<envVars, file, db, faults, readFault, life, pc, lastSequence,
                   outEventClosed, err, ok, store, liveVars, emitted, histVars>>

\* CloseOutEvent without the close: the goroutine ends and leaves outEvent open
CloseOutEventMissing ==
    /\ replay.pc = "closeEvent"
    /\ replay' = [replay EXCEPT !.pc = "done"]
    /\ UNCHANGED <<envVars, file, db, faults, readFault, life, pc, lastSequence,
                   outError, outEventClosed, err, ok, store, liveVars, emitted,
                   histVars>>

\* defer close(outEvent), which runs last
CloseOutEvent ==
    /\ replay.pc = "closeEvent"
    /\ outEventClosed' = TRUE
    /\ replay' = [replay EXCEPT !.pc = "done"]
    /\ UNCHANGED <<envVars, file, db, faults, readFault, life, pc, lastSequence,
                   outError, err, ok, store, liveVars, emitted, histVars>>

\* for ok && err == nil
InReplayLoop == pc = "replay" /\ ok /\ err = "nil"

\* case err, ok = <-errors
SelectError ==
    /\ InReplayLoop
    /\ outError.buf # <<>> \/ outError.closed
    /\ IF outError.buf # <<>>
       THEN /\ err' = Head(outError.buf)
            /\ ok' = TRUE
            /\ outError' = [outError EXCEPT !.buf = Tail(@)]
       ELSE /\ err' = "nil"
            /\ ok' = FALSE
            /\ UNCHANGED outError
    /\ UNCHANGED <<envVars, file, db, faults, readFault, life, pc, lastSequence,
                   replay, outEventClosed, store, liveVars, emitted, histVars>>

\* case e, ok = <-events, the producer being at outEvent <- e
SelectEvent ==
    /\ InReplayLoop
    /\ replay.pc = "send"
    /\ ok' = TRUE
    /\ err' = "nil"
    /\ store' = ApplyEvent(store, replay.e)
    /\ emitted' = Append(emitted, replay.e)
    /\ replay' = [replay EXCEPT !.pc = "scan"]
    /\ UNCHANGED <<envVars, file, db, faults, readFault, life, pc, lastSequence,
                   outError, outEventClosed, liveVars, histVars>>

\* case e, ok = <-events, outEvent being closed: the zero Event and ok = false
SelectEventClosed ==
    /\ InReplayLoop
    /\ outEventClosed
    /\ ok' = FALSE
    /\ store' = ApplyEvent(store, ZeroEvent)
    /\ UNCHANGED <<envVars, file, db, faults, readFault, life, pc, lastSequence,
                   replay, outError, outEventClosed, err, liveVars, emitted,
                   histVars>>

\* what main does with the error initializeTransactionLog returns
AfterInitialize(e) == IF e = "nil" THEN "serving" ELSE "fatal"

\* the end of initializeTransactionLog: logger.Run() and return err
InitializeReturn ==
    /\ pc = "replay"
    /\ ~(ok /\ err = "nil")
    /\ events' = <<>>
    /\ errors' = <<>>
    /\ writer' = [pc |-> "recv"]
    /\ hwm' = lastSequence
    /\ runs' = runs + 1
    /\ pc' = AfterInitialize(err)
    /\ UNCHANGED <<envVars, file, db, faults, readFault, life, lastSequence,
                   replayVars, store, callers, admitted, base>>


(***************************************************************************)
(* Live: the request handlers                                              *)
(***************************************************************************)
\* a client's request arrives once the client it follows has its response
Ready(c) ==
    IF workload[c].after = 0 THEN TRUE
    ELSE callers[workload[c].after].pc = "done"

\* keyValuePutHandler up to and including Put(key, string(value))
KeyValuePutHandler(c) ==
    /\ pc = "serving"
    /\ callers[c].pc = "idle"
    /\ Ready(c)
    /\ \E e \in workload[c].choices :
        /\ e.EventType = EventPut
        /\ store' = Put(store, e.Key, e.Value)
        /\ callers' = [callers EXCEPT ![c] = [pc |-> "stored", e |-> e]]
    /\ UNCHANGED <<envVars, file, db, faults, readFault, life, pc, lastSequence,
                   replayVars, events, errors, writer, admitted, histVars>>

\* keyValueDeleteHandler up to and including Delete(key)
KeyValueDeleteHandler(c) ==
    /\ pc = "serving"
    /\ callers[c].pc = "idle"
    /\ Ready(c)
    /\ \E e \in workload[c].choices :
        /\ e.EventType = EventDelete
        /\ store' = Delete(store, e.Key)
        /\ callers' = [callers EXCEPT ![c] = [pc |-> "stored", e |-> e]]
    /\ UNCHANGED <<envVars, file, db, faults, readFault, life, pc, lastSequence,
                   replayVars, events, errors, writer, admitted, histVars>>

\* l.events <- e, and the handler's response
SendEvent(c) ==
    /\ pc = "serving"
    /\ callers[c].pc = "stored"
    /\ CanSend(events, EventsCap)
    /\ events' = Append(events, callers[c].e)
    /\ admitted' = Append(admitted, callers[c].e)
    /\ callers' = [callers EXCEPT ![c].pc = "done"]
    /\ UNCHANGED <<envVars, file, db, faults, readFault, life, pc, lastSequence,
                   replayVars, store, errors, writer, histVars>>

\* logger.WritePut(key, string(value))
WritePut(c) ==
    /\ callers[c].e.EventType = EventPut
    /\ SendEvent(c)

\* logger.WriteDelete(key)
WriteDelete(c) ==
    /\ callers[c].e.EventType = EventDelete
    /\ SendEvent(c)

(***************************************************************************)
(* Live: the writer goroutine of Run                                       *)
(***************************************************************************)
\* NextSequence without the increment
NextSequenceStuck(s) == s

\* l.lastSequence++
NextSequence(s) == s + 1

\* what a failed write may leave of the line in the file: any proper prefix
PartialWrites(line) == {SubSeq(line, 1, k) : k \in 0..(Len(line) - 1)}

\* where the writer goes after errors <- err: the file backend returns, the
\* PostgreSQL backend takes the next event
AfterError(b) == IF b = "file" THEN "exited" ELSE "recv"

\* PublishWriteError as a send that gives up when the buffer is full
PublishWriteErrorDropping ==
    IF CanSend(errors, ErrorsCap)
    THEN /\ errors' = Append(errors, "write error")
         /\ writer' = [pc |-> AfterError(backend)]
    ELSE /\ writer' = [pc |-> AfterError(backend)]
         /\ UNCHANGED errors

\* errors <- err: through when the buffer has room, blocked otherwise
PublishWriteError ==
    IF CanSend(errors, ErrorsCap)
    THEN /\ errors' = Append(errors, "write error")
         /\ writer' = [pc |-> AfterError(backend)]
    ELSE /\ writer' = [pc |-> "blocked"]
         /\ UNCHANGED errors

\* for e := range events, with a write that succeeds (file backend)
FileWriterPersist ==
    /\ backend = "file"
    /\ writer.pc = "recv"
    /\ events # <<>>
    /\ events' = Tail(events)
    /\ lastSequence' = NextSequence(lastSequence)
    /\ file' = Append(file, LogLine(lastSequence', Head(events)))
    /\ UNCHANGED <<envVars, db, faults, readFault, life, pc, replayVars, store,
                   errors, writer, callers, admitted, histVars>>

\* FileWriterFail with the failed event put back on the queue
FileWriterFailRequeue ==
    /\ backend = "file"
    /\ writer.pc = "recv"
    /\ events # <<>>
    /\ faults > 0
    /\ faults' = faults - 1
    /\ events' = Append(Tail(events), Head(events))
    /\ lastSequence' = NextSequence(lastSequence)
    /\ \E part \in PartialWrites(LogLine(lastSequence', Head(events))) :
        file' = IF part = <<>> THEN file ELSE Append(file, part)
    /\ PublishWriteError
    /\ UNCHANGED <<envVars, db, readFault, life, pc, replayVars, store,
                   callers, admitted, histVars>>

\* for e := range events, with a write that fails (file backend)
FileWriterFail ==
    /\ backend = "file"
    /\ writer.pc = "recv"
    /\ events # <<>>
    /\ faults > 0
    /\ faults' = faults - 1
    /\ events' = Tail(events)
    /\ lastSequence' = NextSequence(lastSequence)
    /\ \E part \in PartialWrites(LogLine(lastSequence', Head(events))) :
        file' = IF part = <<>> THEN file ELSE Append(file, part)
    /\ PublishWriteError
    /\ UNCHANGED <<envVars, db, readFault, life, pc, replayVars, store,
                   callers, admitted, histVars>>

\* for e := range events, with an INSERT that succeeds (PostgreSQL backend)
PostgresWriterPersist ==
    /\ backend = "postgres"
    /\ writer.pc = "recv"
    /\ events # <<>>
    /\ StatementOk(db, InsertColumns)
    /\ events' = Tail(events)
    /\ db' = InsertRow(db, Head(events))
    /\ UNCHANGED <<envVars, file, faults, readFault, life, pc, lastSequence,
                   replayVars, store, errors, writer, callers, admitted, histVars>>

\* for e := range events, with an INSERT that fails (PostgreSQL backend): the
\* statement is rejected, or the environment fails it
PostgresWriterFail ==
    /\ backend = "postgres"
    /\ writer.pc = "recv"
    /\ events # <<>>
    /\ IF StatementOk(db, InsertColumns)
       THEN faults > 0 /\ faults' = faults - 1
       ELSE UNCHANGED faults
    /\ events' = Tail(events)
    /\ PublishWriteError
    /\ UNCHANGED <<envVars, file, db, readFault, life, pc, lastSequence,
                   replayVars, store, callers, admitted, histVars>>

\* the blocked errors <- err goes through once the buffer has room
WriterPublish ==
    /\ writer.pc = "blocked"
    /\ CanSend(errors, ErrorsCap)
    /\ errors' = Append(errors, "write error")
    /\ writer' = [pc |-> AfterError(backend)]
    /\ UNCHANGED <<envVars, file, db, faults, readFault, life, pc, lastSequence,
                   replayVars, store, events, callers, admitted, histVars>>

\* a consumer of Err() receives one error (no such consumer is in main.go)
ErrRead ==
    /\ pc = "serving"
    /\ errors # <<>>
    /\ errors' = Tail(errors)
    /\ UNCHANGED <<envVars, file, db, faults, readFault, life, pc, lastSequence,
                   replayVars, store, events, writer, callers, admitted, histVars>>

(***************************************************************************)
(* Process lifetimes                                                       *)
(***************************************************************************)
MaxLives == 2

\* the process ends (log.Fatal, or it is stopped while serving) and is started
\* again: the backend keeps its contents, everything in memory is new
Restart ==
    /\ pc \in {"serving", "fatal"}
    /\ life < MaxLives
    /\ life' = life + 1
    /\ pc' = "start"
    /\ lastSequence' = 0
    /\ replay' = IdleReplay
    /\ outError' = OpenChannel
    /\ outEventClosed' = FALSE
    /\ err' = "nil"
    /\ ok' = TRUE
    /\ store' = EmptyStore
    /\ events' = <<>>
    /\ errors' = <<>>
    /\ writer' = [pc |-> "none"]
    /\ callers' = IdleCallers
    /\ admitted' = <<>>
    /\ emitted' = <<>>
    /\ hwm' = 0
    /\ base' = 0
    /\ runs' = 0
    /\ UNCHANGED <<envVars, file, db, faults, readFault>>


(***************************************************************************)
(* Inputs                                                                  *)
(***************************************************************************)
KeyA == <<"a">>
KeyB == <<"b">>
Val1 == <<"1">>
Val2 == <<"2">>

NoClients == <<>>

(***************************************************************************)
(* SpecReplay: startup on a log file of any content                        *)
(***************************************************************************)
MaxInitLines == 3
MaxInitSeq == 2

\* the lines a log file may hold at startup: lines the logger writes, and
\* lines only an edit of the file can leave
InitLines ==
    {LogLine(s, e) : s \in 1..MaxInitSeq,
                     e \in {PutEvent(KeyA, Val1), PutEvent(KeyB, Val2), DeleteEvent(KeyA)}}
        \cup {<<"x", NL>>}

InitFiles == UNION {[1..n -> InitLines] : n \in 0..MaxInitLines}

InitReplay ==
    /\ backend = "file"
    /\ openable \in BOOLEAN
    /\ workload = NoClients
    /\ file \in InitFiles
    /\ db = NoDb
    /\ faults = 0
    /\ readFault = TRUE
    /\ life = 1
    /\ Fresh

NextReplay ==
    \/ NewFileTranscationLogger
    \/ ReadEvents
    \/ FileReadEventsScan
    \/ FileReadEventsFailure
    \/ CloseOutError
    \/ CloseOutEvent
    \/ SelectError
    \/ SelectEvent
    \/ SelectEventClosed
    \/ InitializeReturn

SpecReplay == InitReplay /\ [][NextReplay]_vars


\* the map a sequence of logged events stands for: a Put event sets its key
\* to its value, a Delete event removes its key
RECURSIVE FoldEvents(_, _)
FoldEvents(m, evs) ==
    IF evs = <<>> THEN m
    ELSE LET e == Head(evs)
             m1 == IF e.EventType = EventPut
                   THEN [k \in DOMAIN m \cup {e.Key} |-> IF k = e.Key THEN e.Value ELSE m[k]]
                   ELSE IF e.EventType = EventDelete
                   THEN [k \in DOMAIN m \ {e.Key} |-> m[k]]
                   ELSE m
         IN FoldEvents(m1, Tail(evs))

FileLines == ScanLines(Flatten(file))

OutOfSequence == replay.err = "transaction numbers out of sequence"

\* C4: if ReadEvents published an error on its error stream, the process
\* never reaches the serving state (initializeTransactionLog returns the error)
C4_ReplayErrorIsFatal == replay.err # "nil" => pc # "serving"

\* C5: the events ReadEvents emits have strictly increasing sequences; when a
\* line's sequence is not above the last emitted one, exactly one error is on
\* the error stream (buffered, or received by the loop), the events emitted are
\* exactly those of the lines before the offending line, in file order, none
\* of that line or a later one, and both streams end closed
C5_OutOfSequenceStopsReplay ==
    /\ \A i \in 1..(Len(emitted) - 1) : emitted[i].Sequence < emitted[i + 1].Sequence
    /\ OutOfSequence =>
        /\ replay.pc \in {"closeError", "closeEvent", "done"}
        /\ \/ outError.buf = <<replay.err>> /\ err = "nil"
           \/ outError.buf = <<>> /\ err = replay.err
        /\ replay.pos < Len(FileLines)
        /\ Sscanf(FileLines[replay.pos + 1],
                  IF emitted = <<>> THEN ZeroEvent ELSE emitted[Len(emitted)]).e.Sequence
              <= lastSequence
        /\ Len(emitted) = replay.pos
        /\ LET before == ReplayFrom(SubSeq(FileLines, 1, replay.pos), ZeroEvent, 0, <<>>)
           IN before.err = "nil" /\ before.events = emitted
        /\ replay.pc = "done" => outError.closed /\ outEventClosed

\* C5 witness: replay stopped on an out-of-sequence line after emitting an
\* event, with a further line after the offending one
C5_Witness ==
    /\ OutOfSequence
    /\ replay.pc = "done"
    /\ Len(emitted) >= 1
    /\ replay.pos + 1 < Len(FileLines)

CleanEnd == pc = "serving" /\ replay.err = "nil"

\* C6: the store is at every point the fold of the events received so far,
\* in order, over the empty map; when replay ends cleanly the events received
\* are all the events of the log, one per line, in log order
C6_ReplayRebuildsStore ==
    /\ store = FoldEvents(EmptyStore, emitted)
    /\ CleanEnd =>
        /\ ReplayOf(file).err = "nil"
        /\ emitted = ReplayOf(file).events
        /\ Len(emitted) = Len(FileLines)

\* C6 witness: a clean end of replay of a log with a Put and a Delete
C6_Witness ==
    /\ CleanEnd
    /\ \E i, j \in 1..Len(emitted) :
        emitted[i].EventType = EventPut /\ emitted[j].EventType = EventDelete
    /\ store # EmptyStore


(***************************************************************************)
(* SpecLive: one lifetime of the application on a log the logger wrote,    *)
(* with concurrent clients and no backend failure                          *)
(***************************************************************************)
MaxCallers == 2

\* the requests a client may make: ordinary ones, a PUT with an empty body
\* and a PUT whose body holds a newline
LiveRequests ==
    {PutEvent(KeyA, Val1), DeleteEvent(KeyA),
     PutEvent(KeyB, <<>>), PutEvent(KeyB, <<"2", NL, "x">>)}

LiveWorkload == [c \in 1..MaxCallers |-> [choices |-> LiveRequests, after |-> 0]]

\* logs left by earlier lifetimes
InitLogs ==
    {<<>>,
     <<LogLine(1, PutEvent(KeyA, Val1))>>,
     <<LogLine(1, PutEvent(KeyA, Val1)), LogLine(2, DeleteEvent(KeyA))>>}

InitLive ==
    /\ backend = "file"
    /\ openable \in BOOLEAN
    /\ workload = LiveWorkload
    /\ file \in InitLogs
    /\ db = NoDb
    /\ faults = 0
    /\ readFault = FALSE
    /\ life = 1
    /\ Fresh

NextLive ==
    \/ NewFileTranscationLogger
    \/ ReadEvents
    \/ FileReadEventsScan
    \/ CloseOutError
    \/ CloseOutEvent
    \/ SelectError
    \/ SelectEvent
    \/ SelectEventClosed
    \/ InitializeReturn
    \/ \E c \in DOMAIN workload : KeyValuePutHandler(c)
    \/ \E c \in DOMAIN workload : KeyValueDeleteHandler(c)
    \/ \E c \in DOMAIN workload : WritePut(c)
    \/ \E c \in DOMAIN workload : WriteDelete(c)
    \/ FileWriterPersist

SpecLive == InitLive /\ [][NextLive]_vars

\* every call made has returned and the writer has consumed every event
Drained ==
    /\ pc = "serving"
    /\ events = <<>>
    /\ writer.pc = "recv"
    /\ \A c \in DOMAIN callers : callers[c].pc # "stored"

\* the same event, the value of a Delete event being irrelevant
SameEvent(a, b) ==
    /\ a.Sequence = b.Sequence
    /\ a.EventType = b.EventType
    /\ a.Key = b.Key
    /\ a.EventType = EventPut => a.Value = b.Value

\* what a replay of the log as it was at startup yields
PriorReplay == ReplayOf(SubSeq(file, 1, base))

\* C1: once N calls are drained, a replay of the file yields no error and
\* exactly the previously logged events followed by the N new events in the
\* order they were admitted, with sequences H+1 .. H+N
C1_OrderPreservation ==
    Drained =>
        LET r == ReplayOf(file)
            p == Len(PriorReplay.events)
            n == Len(admitted)
        IN  /\ r.err = "nil"
            /\ Len(r.events) = p + n
            /\ \A i \in 1..p : r.events[i] = PriorReplay.events[i]
            /\ \A i \in 1..n :
                SameEvent(r.events[p + i], [admitted[i] EXCEPT !.Sequence = hwm + i])

\* C7: after Put("a","1") is written and drained, replay returns it as a Put
\* of "a" and "1" with a sequence s (the one after the prior log's highest);
\* after Delete("a") is written next, replay returns a second event, a Delete
\* of "a" with sequence s+1, and no error; a Delete of a key never Put
\* replays as a Delete with no error
C7_RoundTrip ==
    Drained =>
        LET r == ReplayOf(file)
            p == Len(PriorReplay.events)
            isPut(e, s) == e.Sequence = s /\ e.EventType = EventPut
                           /\ e.Key = KeyA /\ e.Value = Val1
            isDelete(e, s) == e.Sequence = s /\ e.EventType = EventDelete
                              /\ e.Key = KeyA
        IN  /\ (admitted # <<>> /\ admitted[1] = PutEvent(KeyA, Val1)) =>
                /\ Len(r.events) >= p + 1
                /\ isPut(r.events[p + 1], hwm + 1)
                /\ Len(admitted) = 1 => r.err = "nil"
            /\ (Len(admitted) >= 2 /\ admitted[1] = PutEvent(KeyA, Val1)
                    /\ admitted[2] = DeleteEvent(KeyA)) =>
                /\ Len(r.events) >= p + 2
                /\ isDelete(r.events[p + 2], hwm + 2)
                /\ Len(admitted) = 2 => r.err = "nil"
            /\ (admitted = <<DeleteEvent(KeyA)>> /\ file = <<LogLine(1, DeleteEvent(KeyA))>>) =>
                /\ r.err = "nil"
                /\ Len(r.events) = 1
                /\ isDelete(r.events[1], 1)

\* C7 witness: Put("a","1") then Delete("a") written after a prior log and drained
C7_Witness ==
    /\ Drained
    /\ base >= 1
    /\ admitted = <<PutEvent(KeyA, Val1), DeleteEvent(KeyA)>>


(***************************************************************************)
(* SpecBurst: more clients than the events channel holds.  One client      *)
(* issues BurstLen PUTs back to back, each after the response to the one   *)
(* before; two more clients issue one PUT each at any time.  Every PUT has *)
(* its own key.                                                            *)
(***************************************************************************)
BurstLen == 15

FreeKeys == <<KeyA, KeyB>>

BurstWorkload ==
    [c \in 1..(BurstLen + Len(FreeKeys)) |->
        IF c <= BurstLen
        THEN [choices |-> {PutEvent(FormatUint(c), Val1)}, after |-> c - 1]
        ELSE [choices |-> {PutEvent(FreeKeys[c - BurstLen], Val2)}, after |-> 0]]

InitBurst ==
    /\ backend = "file"
    /\ openable \in BOOLEAN
    /\ workload = BurstWorkload
    /\ file = <<>>
    /\ db = NoDb
    /\ faults = 0
    /\ readFault = FALSE
    /\ life = 1
    /\ Fresh

NextBurst ==
    \/ NewFileTranscationLogger
    \/ ReadEvents
    \/ FileReadEventsScan
    \/ CloseOutError
    \/ CloseOutEvent
    \/ SelectError
    \/ SelectEventClosed
    \/ InitializeReturn
    \/ \E c \in DOMAIN workload : KeyValuePutHandler(c)
    \/ \E c \in DOMAIN workload : WritePut(c)
    \/ FileWriterPersist

SpecBurst == InitBurst /\ [][NextBurst]_vars

\* the chunks written to the file since the logger was made
NewChunks == SubSeq(file, base + 1, Len(file))

\* the event a written chunk reads back as
ChunkEvent(chunk) == Sscanf(ScanLines(chunk)[1], ZeroEvent).e

AllReturned == \A c \in DOMAIN callers : callers[c].pc = "done"

\* C2: no two events in the log share a sequence number; once M callers with
\* distinct key-value pairs have returned and the queue is drained, the log
\* holds exactly M new events, one per caller
C2_ConcurrentProducers ==
    pc = "serving" =>
        /\ Cardinality({ChunkEvent(file[i]).Sequence : i \in 1..Len(file)}) = Len(file)
        /\ (Drained /\ AllReturned) =>
            /\ Len(NewChunks) = Cardinality(DOMAIN callers)
            /\ Len(ReplayOf(file).events) = base + Cardinality(DOMAIN callers)
            /\ ReplayOf(file).err = "nil"
            /\ \A c \in DOMAIN callers :
                Cardinality({i \in 1..Len(NewChunks) :
                    LET e == ChunkEvent(NewChunks[i])
                    IN  /\ e.EventType = EventPut
                        /\ e.Key = callers[c].e.Key
                        /\ e.Value = callers[c].e.Value}) = 1

\* C2 witness: more callers than the queue holds have all returned and are
\* drained, and were not admitted in the order of their numbers
C2_Witness ==
    /\ Drained
    /\ AllReturned
    /\ Cardinality(DOMAIN callers) > EventsCap
    /\ admitted[1] = callers[Cardinality(DOMAIN callers)].e

\* C8: the queue never holds more than 16 events; a call whose event is not
\* yet admitted cannot go through while the queue holds 16; a call that has
\* returned has its event admitted, exactly once; and the events leave the
\* queue in the order they were admitted, none dropped: the written lines are
\* the first admitted events in order and the queue holds the rest in order
C8_BlockingBoundedFifo ==
    pc = "serving" =>
        /\ Len(events) <= EventsCap
        /\ \A c \in DOMAIN callers :
            /\ (callers[c].pc = "stored" /\ Len(events) = EventsCap)
                    => ~ENABLED WritePut(c)
            /\ callers[c].pc = "done"
                    => Cardinality({i \in 1..Len(admitted) : admitted[i] = callers[c].e}) = 1
            /\ callers[c].pc # "done"
                    => \A i \in 1..Len(admitted) : admitted[i] \notin workload[c].choices
        /\ Len(admitted) = Cardinality({c \in DOMAIN callers : callers[c].pc = "done"})
        /\ Len(NewChunks) + Len(events) = Len(admitted)
        /\ \A i \in 1..Len(events) : events[i] = admitted[Len(NewChunks) + i]
        /\ \A i \in 1..Len(NewChunks) : NewChunks[i] = LogLine(hwm + i, admitted[i])

\* C8 witness: the queue holds 16 events and a caller is blocked on its send
C8_Witness ==
    /\ Len(events) = EventsCap
    /\ \E c \in DOMAIN callers : callers[c].pc = "stored"


(***************************************************************************)
(* SpecErr: both backends, with backend write failures, a consumer of      *)
(* Err() and restarts.  initializeTransactionLog drives whichever          *)
(* TransactionLogger the process constructs; one client issues its         *)
(* requests back to back.                                                  *)
(***************************************************************************)
MaxFaults == 2
ErrBurst == 3

ErrRequests == <<PutEvent(KeyA, Val1), DeleteEvent(KeyA), PutEvent(KeyB, Val2)>>

ErrWorkload ==
    [c \in 1..ErrBurst |->
        [choices |-> {ErrRequests[((c - 1) % Len(ErrRequests)) + 1]}, after |-> c - 1]]

\* a transactions table with the columns the logger's statements name
GoodTable(rows) == [cols |-> SelectColumns, rows |-> rows, exists |-> TRUE]

InitTables ==
    {NoTable, GoodTable(<<>>),
     GoodTable(<<[PutEvent(KeyA, Val1) EXCEPT !.Sequence = 1]>>)}

InitDbs ==
    {[up |-> u, hasByte |-> h, serial |-> Len(t.rows), table |-> t] :
        u \in BOOLEAN, h \in BOOLEAN, t \in InitTables}

InitErr ==
    /\ \/ /\ backend = "file"
          /\ openable \in BOOLEAN
          /\ file \in {<<>>, <<LogLine(1, PutEvent(KeyA, Val1))>>}
          /\ db = NoDb
          /\ readFault = FALSE
       \/ /\ backend = "postgres"
          /\ openable = TRUE
          /\ file = <<>>
          /\ db \in InitDbs
          /\ readFault \in BOOLEAN
    /\ workload = ErrWorkload
    /\ faults = MaxFaults
    /\ life = 1
    /\ Fresh

NextErr ==
    \/ NewFileTranscationLogger
    \/ NewPostgresTransactionLogger
    \/ ReadEvents
    \/ FileReadEventsScan
    \/ PostgresReadEventsNext
    \/ PostgresReadEventsScanFailure
    \/ PostgresReadEventsFailure
    \/ CloseOutError
    \/ CloseOutEvent
    \/ SelectError
    \/ SelectEvent
    \/ SelectEventClosed
    \/ InitializeReturn
    \/ \E c \in DOMAIN workload : KeyValuePutHandler(c)
    \/ \E c \in DOMAIN workload : KeyValueDeleteHandler(c)
    \/ \E c \in DOMAIN workload : WritePut(c)
    \/ \E c \in DOMAIN workload : WriteDelete(c)
    \/ FileWriterPersist
    \/ FileWriterFail
    \/ PostgresWriterPersist
    \/ PostgresWriterFail
    \/ WriterPublish
    \/ ErrRead
    \/ Restart

SpecErr == InitErr /\ [][NextErr]_vars

\* C3: in both backends the writer task does not abort its loop after a
\* failed write
C3_WriterNeverAborts == writer.pc # "exited"

\* the contents of the backend
Backend == <<file, db.table, db.serial>>

\* C9: the error stream holds at most one error; a write failure that finds
\* an error already buffered leaves it buffered and blocks the writer; while
\* the writer is blocked on a full stream it can neither publish nor persist
\* and the backend does not change; once a consumer has read the error the
\* blocked publish can go through, and with it the writer is back at taking
\* the next event
C9_ErrorStreamSinglyBuffered ==
    /\ [](/\ Len(errors) <= ErrorsCap
          /\ (writer.pc = "blocked" /\ Len(errors) = ErrorsCap) =>
                /\ ~ENABLED WriterPublish
                /\ ~ENABLED FileWriterPersist
                /\ ~ENABLED PostgresWriterPersist
          /\ (writer.pc = "blocked" /\ Len(errors) < ErrorsCap) => ENABLED WriterPublish)
    /\ [][/\ (writer.pc = "recv" /\ Len(events') < Len(events) /\ Backend' = Backend
                /\ Len(errors) = ErrorsCap /\ life' = life)
              => (writer'.pc = "blocked" /\ errors' = errors)
          /\ (writer.pc = "blocked" /\ writer'.pc = "blocked") => Backend' = Backend
          /\ (writer.pc = "blocked" /\ writer'.pc # "blocked" /\ life' = life)
              => (writer'.pc = "recv" /\ Len(errors') = ErrorsCap /\ Len(errors) < ErrorsCap)
         ]_vars

\* C9 witness: a second failure found the first error unread: the writer is
\* blocked on the full error stream with an event waiting in the queue
C9_Witness ==
    /\ writer.pc = "blocked"
    /\ Len(errors) = ErrorsCap
    /\ events # <<>>

\* C10: constructing a logger leaves the file as it was and, where the file
\* can be opened, succeeds; it
\* leaves an existing table as it was, and where there was none it creates an
\* empty one or leaves the database as it was; constructing again on the
\* backend a construction leaves yields the same backend
C10_BootstrapKeepsBackend ==
    /\ [](/\ OpenFile(OpenFile(file)) = OpenFile(file)
          /\ PostgresBootstrap(PostgresBootstrap(db).db).db = PostgresBootstrap(db).db)
    /\ [][(pc = "start" /\ pc' # "start") =>
            /\ file' = file
            /\ (backend = "file" /\ openable) => pc' = "constructed"
            /\ (backend = "postgres" /\ TableExists(db)) =>
                    /\ db' = db
                    /\ db.up => pc' = "constructed"
            /\ (backend = "postgres" /\ ~TableExists(db)) =>
                    \/ db' = db
                    \/ db' = [db EXCEPT !.table = [cols |-> CreatedColumns,
                                                   rows |-> <<>>, exists |-> TRUE]]
         ]_vars

\* C10 witness: a logger constructed on a file that a previous lifetime wrote
C10_Witness ==
    /\ pc = "constructed"
    /\ backend = "file"
    /\ life > 1
    /\ Len(file) > 1


(***************************************************************************)
(* Termination of the startup replay                                       *)
(***************************************************************************)
\* the errors ReadEvents has sent so far: those buffered and the one received
ErrorsSent == Len(outError.buf) + (IF err = "nil" THEN 0 ELSE 1)

ReplayLoopEnded == pc \in {"serving", "fatal"}

\* how far the goroutine of ReadEvents is from its end
ProducerRank ==
    CASE replay.pc = "none" -> 2 * Len(FileLines) + 5
      [] replay.pc = "scan" -> 2 * (Len(FileLines) - replay.pos) + 4
      [] replay.pc = "send" -> 2 * (Len(FileLines) - replay.pos) + 5
      [] replay.pc = "closeError" -> 2
      [] replay.pc = "closeEvent" -> 1
      [] replay.pc = "done" -> 0

\* how far main is from the end of initializeTransactionLog
MainRank ==
    CASE pc = "start" -> 3
      [] pc = "constructed" -> 2
      [] pc = "replay" -> 1
      [] OTHER -> 0

\* a natural number that every step of startup makes smaller
ReplayRank == 2 * MainRank + ProducerRank + (IF InReplayLoop THEN 1 ELSE 0)

\* some step of startup can be taken: main's, the loop's or the producer's
\* (whose scanning step waits for nothing but room for an error it publishes)
ReplayCanStep ==
    \/ ENABLED NewFileTranscationLogger
    \/ ENABLED ReadEvents
    \/ ENABLED SelectError
    \/ ENABLED SelectEvent
    \/ ENABLED SelectEventClosed
    \/ ENABLED InitializeReturn
    \/ ENABLED CloseOutError
    \/ ENABLED CloseOutEvent
    \/ replay.pc = "scan" /\ CanSend(outError.buf, ErrorsCap)

\* C11: ReadEvents sends at most one error and no more events than the file
\* has lines; where the producer scans and publishes there is always room
\* for the error, so that send never blocks, and it waits to hand over an
\* event only while the loop is still receiving; once it has ended both
\* streams are closed; an empty file read without failure yields no event
\* and no error; and the replay loop always terminates: until it has ended a
\* step can always be taken, and every step lowers a natural number
C11_ReplayStreamsTerminate ==
    /\ [](/\ ErrorsSent <= 1
          /\ Len(emitted) <= Len(FileLines)
          /\ replay.pc = "scan" => CanSend(outError.buf, ErrorsCap)
          /\ replay.pc = "send" => InReplayLoop
          /\ replay.pc = "done" => outError.closed /\ outEventClosed
          /\ (file = <<>> /\ readFault /\ replay.pc = "done") =>
                emitted = <<>> /\ ErrorsSent = 0 /\ replay.err = "nil"
          /\ ~ReplayLoopEnded => ReplayCanStep
          /\ ReplayRank >= 0)
    /\ [][ReplayRank' < ReplayRank]_vars

\* C11 witness: the loop has ended on an error ReadEvents sent after an event,
\* and the producer has closed both streams
C11_Witness ==
    /\ ReplayLoopEnded
    /\ replay.pc = "done"
    /\ err # "nil"
    /\ Len(emitted) >= 1


(***************************************************************************)
(* SpecLives: lifetimes of the application on a log that starts empty and  *)
(* that only the logger writes, with concurrent clients, no backend        *)
(* failure, and a request body that holds a newline                        *)
(***************************************************************************)
LivesRequests ==
    {PutEvent(KeyA, Val1), DeleteEvent(KeyA), PutEvent(KeyB, <<"x", NL, "1">>)}

LivesWorkload == [c \in 1..MaxCallers |-> [choices |-> LivesRequests, after |-> 0]]

InitLives ==
    /\ backend = "file"
    /\ openable \in BOOLEAN
    /\ workload = LivesWorkload
    /\ file = <<>>
    /\ db = NoDb
    /\ faults = 0
    /\ readFault = FALSE
    /\ life = 1
    /\ Fresh

NextLives ==
    \/ NewFileTranscationLogger
    \/ ReadEvents
    \/ FileReadEventsScan
    \/ CloseOutError
    \/ CloseOutEvent
    \/ SelectError
    \/ SelectEvent
    \/ SelectEventClosed
    \/ InitializeReturn
    \/ \E c \in DOMAIN workload : KeyValuePutHandler(c)
    \/ \E c \in DOMAIN workload : KeyValueDeleteHandler(c)
    \/ \E c \in DOMAIN workload : WritePut(c)
    \/ \E c \in DOMAIN workload : WriteDelete(c)
    \/ FileWriterPersist
    \/ Restart

SpecLives == InitLives /\ [][NextLives]_vars

\* the sequence number a line of the file reads as
LineSequence(line) == Sscanf(line, ZeroEvent).e.Sequence

\* C12: over the lifetimes of the process the sequence numbers of the lines
\* of the file are strictly increasing in physical order, and replay of the
\* file never meets the out-of-sequence error
C12_SequencesIncreaseAcrossLifetimes ==
    /\ \A i \in 1..(Len(FileLines) - 1) :
        LineSequence(FileLines[i]) < LineSequence(FileLines[i + 1])
    /\ ~OutOfSequence


(***************************************************************************)
(* ReadEvents and Run on one logger                                        *)
(***************************************************************************)
\* the goroutine of ReadEvents is past its last access to l.file and
\* l.lastSequence: only its deferred closes are left, or nothing
ProducerPastAccess == replay.pc \in {"closeError", "closeEvent", "done"}

\* C13: Run() is called only once the ReadEvents goroutine is past its last
\* access to the file and to lastSequence, on every path out of the replay
\* loop; from then on, while the writer of Run exists, the producer makes no
\* further scan
C13_ReadEventsBeforeRun ==
    /\ [](writer.pc # "none" => ProducerPastAccess)
    /\ [][/\ runs' > runs => ProducerPastAccess
          /\ (writer.pc # "none" /\ life' = life) =>
                (replay'.pos = replay.pos /\ ProducerPastAccess')
         ]_vars

\* C13 witness: Run() was called on the error path while the producer still
\* had its deferred closes to run
C13_Witness ==
    /\ writer.pc = "recv"
    /\ err # "nil"
    /\ replay.pc = "closeError"
    /\ replay.pos >= 1


(***************************************************************************)
(* The startup protocol                                                    *)
(***************************************************************************)
\* C14: Run() is called at most once in a lifetime, and only when the replay
\* loop ended with no error; no request handler is at work before Run() has
\* been called
C14_RunOnceAfterCleanReplay ==
    /\ runs <= 1
    /\ runs >= 1 => err = "nil"
    /\ \A c \in DOMAIN callers : callers[c].pc # "idle" => runs = 1


(***************************************************************************)
(* The sequence counter and the log                                        *)
(***************************************************************************)
\* the highest sequence number a line of the file reads as, 0 for no line
HighestSequence ==
    LET seqs == {LineSequence(FileLines[i]) : i \in 1..Len(FileLines)} \cup {0}
    IN  CHOOSE m \in seqs : \A n \in seqs : n <= m

\* C15: once replay has ended cleanly and Run() has been called, between the
\* writer's turns lastSequence is the highest sequence number in the file,
\* also after a write that failed
C15_CounterMatchesLog ==
    (backend = "file" /\ pc = "serving" /\ replay.err = "nil")
        => lastSequence = HighestSequence


(***************************************************************************)
(* The log as an append-only record                                        *)
(***************************************************************************)
IsPrefix(a, b) == Len(a) <= Len(b) /\ SubSeq(b, 1, Len(a)) = a

\* the writer took an event off the queue in this step
Consumes == life' = life /\ writer.pc = "recv" /\ Len(events') < Len(events)

\* C16: every step leaves the bytes of the file and the rows of the table in
\* place and at most adds to their end; the backend changes only when the
\* writer consumes an event, which then leaves the queue for good (also when
\* its write fails) and adds at most one record, that event's (or, on a
\* failed write, a part of it)
C16_AppendOnlyAtMostOnce ==
    [][/\ IsPrefix(Flatten(file), Flatten(file'))
       /\ IsPrefix(db.table.rows, db'.table.rows)
       /\ (file' # file \/ db'.table.rows # db.table.rows) => Consumes
       /\ Consumes =>
            /\ events' = Tail(events)
            /\ Len(admitted') = Len(admitted)
            /\ \/ file' = file
               \/ /\ Len(file') = Len(file) + 1
                  /\ IsPrefix(file'[Len(file')], LogLine(lastSequence', Head(events)))
            /\ \/ db'.table.rows = db.table.rows
               \/ /\ Len(db'.table.rows) = Len(db.table.rows) + 1
                  /\ SameEvent(db'.table.rows[Len(db'.table.rows)],
                               [Head(events) EXCEPT !.Sequence = db'.serial])
      ]_vars

\* C16 witness: on a file that held records when the logger was made, the
\* writer has added to the file and then stopped on a failed write
C16_Witness ==
    /\ backend = "file"
    /\ writer.pc = "exited"
    /\ base >= 1
    /\ Len(file) > base + 1


(***************************************************************************)
(* The relational backend on the table its own bootstrap creates           *)
(***************************************************************************)
\* the transactions table is the one createTable makes
BootstrapTable == db.table.exists /\ db.table.cols = CreatedColumns

\* C17: on a reachable database the bootstrap succeeds; on the table it
\* creates ReadEvents reads the rows without error, and every event the
\* writer has consumed is a row of the table (no statement being failed by
\* the environment), in the order consumed and with the same kind, key and
\* value
C17_BootstrapTableRoundTrip ==
    backend = "postgres" =>
        /\ (db.up /\ replay.pc = "none") => pc # "fatal"
        /\ BootstrapTable =>
            /\ replay.err = "nil"
            /\ (writer.pc # "none" /\ faults = MaxFaults) =>
                /\ Len(db.table.rows) = Len(admitted) - Len(events)
                /\ \A i \in 1..Len(db.table.rows) :
                    SameEvent(db.table.rows[i], [admitted[i] EXCEPT !.Sequence = i])


(***************************************************************************)
(* The store and the log under concurrent handlers                         *)
(***************************************************************************)
\* a key or value that the file format carries unchanged
IsWord(w) == w # <<>> /\ \A i \in 1..Len(w) : ~IsSpace(w[i])

CleanEvent(e) == IsWord(e.Key) /\ (e.EventType = EventPut => IsWord(e.Value))

\* C18: once all handlers that started have returned and the queue is
\* drained, with requests the file format carries unchanged, replaying the
\* log over the empty map gives the store's current map
C18_ReplayMatchesStore ==
    (Drained /\ \A i \in 1..Len(admitted) : CleanEvent(admitted[i])) =>
        /\ ReplayOf(file).err = "nil"
        /\ FoldEvents(EmptyStore, ReplayOf(file).events) = store


(***************************************************************************)
(* SpecStall: the application as main.go wires it (the file backend, no    *)
(* reader of Err()), with backend write failures; the writer goroutine and *)
(* the handlers' sends are scheduled: a step of theirs that stays possible *)
(* is eventually taken                                                     *)
(***************************************************************************)
InitStall ==
    /\ backend = "file"
    /\ openable \in BOOLEAN
    /\ workload = ErrWorkload
    /\ file = <<>>
    /\ db = NoDb
    /\ faults = MaxFaults
    /\ readFault = FALSE
    /\ life = 1
    /\ Fresh

WriterStep == FileWriterPersist \/ FileWriterFail

SendStep == \E c \in DOMAIN workload : WritePut(c) \/ WriteDelete(c)

NextStall ==
    \/ NewFileTranscationLogger
    \/ ReadEvents
    \/ FileReadEventsScan
    \/ CloseOutError
    \/ CloseOutEvent
    \/ SelectError
    \/ SelectEventClosed
    \/ InitializeReturn
    \/ \E c \in DOMAIN workload : KeyValuePutHandler(c)
    \/ \E c \in DOMAIN workload : KeyValueDeleteHandler(c)
    \/ \E c \in DOMAIN workload : WritePut(c)
    \/ \E c \in DOMAIN workload : WriteDelete(c)
    \/ FileWriterPersist
    \/ FileWriterFail

SpecStall ==
    InitStall /\ [][NextStall]_vars /\ WF_vars(WriterStep) /\ WF_vars(SendStep)

\* C19: every call of WritePut/WriteDelete a handler makes eventually
\* returns, and every event admitted to the queue is eventually consumed by
\* the writer, also after a backend write has failed
C19_CallsReturnAndDrain ==
    /\ \A c \in 1..ErrBurst :
        (callers[c].pc = "stored") ~> (callers[c].pc = "done")
    /\ \A i \in 1..ErrBurst :
        (Len(admitted) >= i) ~> (Len(admitted) - Len(events) >= i)

====
